---- MODULE Spec2Model ----
(***************************************************************************)
(* The automated grading engine of docs/exercises/automated-testing/       *)
(* test_runner.py: SolutionImporter, TestRunner and AutomatedTester.       *)
(*                                                                         *)
(* One grading call is followed statement by statement: the position in    *)
(* the code is pc, the locals of test_solution and run_test_suite are      *)
(* variables, and log records what the call did to the outside world       *)
(* (module loads, reads of the source text, invocations of checks).        *)
(* A student file is described by what the code can observe of it: whether *)
(* the path exists, what executing its top-level code does, whether its    *)
(* text can be read and parsed, and what each check does when it is run    *)
(* against the loaded module.  Wall-clock measurements (execution_time)    *)
(* and console output other than the loader's diagnostic are left out.     *)
(*                                                                         *)
(* The static methods of CodeAnalyzer (find_classes, find_methods,         *)
(* find_design_patterns, check_tdd_compliance) are operators over the      *)
(* class and function definitions of a source text; the specifications     *)
(* SpecPatterns, SpecGrowth, SpecTree and SpecTdd call them on every text  *)
(* of a bounded size.                                                      *)
(*                                                                         *)
(* AutomatedTester.generate_report is an operator from the mapping it is   *)
(* given to the lines of the report or the exception it raises; Spec calls *)
(* it on what test_solution returned, SpecReport on every mapping of a     *)
(* bounded number of suites.  SpecSuite follows a ModuleTestSuite object   *)
(* that a caller constructs and then changes.                              *)
(***************************************************************************)
EXTENDS Integers, Sequences, FiniteSets, TLC

VARIABLES
    test_suites,      \* AutomatedTester.test_suites: key -> ModuleTestSuite
    pc,               \* position in the code
    top,              \* the public operation the caller invoked
    solution_file,    \* the student file passed by the caller
    test_suite_name,  \* argument of test_solution (None or a string)
    results,          \* test_solution: the mapping built so far
    pending,          \* test_solution: suite keys the for loop has not reached
    rs_key,           \* key under which the running suite is reported
    rs_suite,         \* run_test_suite: the test_suite argument
    solution,         \* run_test_suite: the loaded module (0 is None)
    tree,             \* run_test_suite: result of parse_code ("unset" before)
    test_results,     \* run_test_suite: results appended so far
    total_score,      \* run_test_suite: accumulated score
    lastCase,         \* the last run_test_case call and how it ended
    lastImport,       \* how the last import_solution call ended
    ret,              \* value returned to the caller
    exc,              \* exception that reached the caller
    log,              \* loads, reads and check invocations of this call
    first,            \* outcome of the call that the present call repeats
    generated,        \* generate_report: its argument and how it ended
    own_suite,        \* a ModuleTestSuite object in the hands of a caller
    code,             \* CodeAnalyzer: the source text handed to it
    analysis          \* CodeAnalyzer: the last call and what it returned

vars == << test_suites, pc, top, solution_file, test_suite_name, results,
           pending, rs_key, rs_suite, solution, tree, test_results,
           total_score, lastCase, lastImport, ret, exc, log, first, generated,
           own_suite, code, analysis >>

\* The variables of the analyzer; a grading call leaves them alone.
analyzer == << code, analysis >>

-----------------------------------------------------------------------------
(* Bounds of the model. *)

\* A file fixes the behaviour of check i as checks[((i-1) % PatternLen)+1].
PatternLen == 3

\* generate_report is given mappings with entries for this many suites.
MaxReportSuites == 2

\* A suite object of a caller has at most this many cases.
MaxSuiteCases == 2

-----------------------------------------------------------------------------
(* Data model: TestResult, TestCase, TestExecutionResult, ModuleTestSuite. *)

TestResult == {"PASS", "FAIL", "ERROR", "SKIP"}

TestCase(name, points) == [name |-> name, points |-> points]

RECURSIVE SumPoints(_)
SumPoints(cases) ==
    IF cases = << >> THEN 0
    ELSE Head(cases).points + SumPoints(Tail(cases))

\* The max_points argument is overwritten by __post_init__.
ModuleTestSuite(module_name, test_cases) ==
    [module_name |-> module_name,
     test_cases  |-> test_cases,
     max_points  |-> SumPoints(test_cases)]

-----------------------------------------------------------------------------
(* The per-module catalogues of checks (name and point value of each). *)

create_srp_tests ==
    << TestCase("test_user_validator_exists", 2),
       TestCase("test_user_repository_exists", 2),
       TestCase("test_email_service_exists", 2),
       TestCase("test_user_service_srp_compliance", 3),
       TestCase("test_dependency_injection", 3) >>

create_pattern_tests ==
    << TestCase("test_strategy_pattern", 4),
       TestCase("test_observer_pattern", 4),
       TestCase("test_factory_pattern", 3),
       TestCase("test_command_pattern", 4),
       TestCase("test_decorator_pattern", 4) >>

create_architecture_tests ==
    << TestCase("test_repository_pattern", 3),
       TestCase("test_service_layer", 3),
       TestCase("test_domain_entities", 4),
       TestCase("test_api_layer", 3),
       TestCase("test_clean_architecture", 5) >>

create_ddd_tests ==
    << TestCase("test_bounded_contexts", 3),
       TestCase("test_value_objects", 4),
       TestCase("test_aggregates", 5),
       TestCase("test_domain_events", 4),
       TestCase("test_repositories", 3),
       TestCase("test_ubiquitous_language", 3),
       TestCase("test_business_rules", 4) >>

create_project_tests ==
    << TestCase("test_solid_principles_applied", 5),
       TestCase("test_design_patterns_integration", 5),
       TestCase("test_clean_architecture_layers", 5),
       TestCase("test_async_implementation", 3),
       TestCase("test_error_handling", 3),
       TestCase("test_monitoring_and_observability", 4),
       TestCase("test_api_endpoints", 4),
       TestCase("test_configuration_management", 3),
       TestCase("test_production_readiness", 5) >>

\* The registry keys in the insertion order of the dict literal.
SuiteOrder ==
    << "solid-srp", "patterns-ecommerce", "architecture-blog",
       "ddd-ecommerce", "project-implementation" >>

SuiteKeys == { SuiteOrder[i] : i \in 1..Len(SuiteOrder) }

initialize_test_suites ==
    [k \in SuiteKeys |->
        CASE k = "solid-srp" ->
               ModuleTestSuite("SOLID - Single Responsibility Principle",
                               create_srp_tests)
          [] k = "patterns-ecommerce" ->
               ModuleTestSuite("Design Patterns - E-commerce System",
                               create_pattern_tests)
          [] k = "architecture-blog" ->
               ModuleTestSuite("Architecture - Blog Platform",
                               create_architecture_tests)
          [] k = "ddd-ecommerce" ->
               ModuleTestSuite("Domain-Driven Design - E-commerce Domain",
                               create_ddd_tests)
          [] OTHER ->
               ModuleTestSuite("Complete Project Implementation",
                               create_project_tests)]

-----------------------------------------------------------------------------
(* Exceptions.  `except Exception` catches every class derived from        *)
(* Exception; SystemExit, KeyboardInterrupt and GeneratorExit derive from  *)
(* BaseException only.                                                     *)

Exc(type, msg) == [type |-> type, msg |-> msg]

NoExc == Exc("", "")

BaseOnlyTypes == {"SystemExit", "KeyboardInterrupt", "GeneratorExit"}

IsException(e) == e.type \notin BaseOnlyTypes

IsAssertionError(e) == e.type = "AssertionError"

-----------------------------------------------------------------------------
(* The inputs of a grading call. *)

\* What executing the file's top-level code does.
LoadBehaviours == {"ok", "raise", "exit"}

\* What a check does when called with the loaded module.
CheckBehaviours == {"return", "assert", "raise", "exit"}

AllReturn == [i \in 1..PatternLen |-> "return"]

MissingFile ==
    [exists |-> FALSE, load |-> "raise", readable |-> FALSE,
     parses |-> FALSE, checks |-> AllReturn]

\* Existing files.  A file that does not load never has a check run
\* against it, so its checks field is immaterial and kept at AllReturn.
ExistingFiles ==
    { [exists |-> TRUE, load |-> l, readable |-> r, parses |-> p,
       checks |-> c] :
         l \in {"raise", "exit"}, r \in BOOLEAN, p \in BOOLEAN,
         c \in {AllReturn} }
    \cup
    { [exists |-> TRUE, load |-> "ok", readable |-> r, parses |-> p,
       checks |-> c] :
         r \in BOOLEAN, p \in BOOLEAN,
         c \in [1..PatternLen -> CheckBehaviours] }

Files == {MissingFile} \cup ExistingFiles

\* test_suite_name: None, or a string.
None == [given |-> FALSE, name |-> ""]

Str(s) == [given |-> TRUE, name |-> s]

SuiteNames ==
    {None} \cup { Str(s) : s \in SuiteKeys \cup {"", "nonexistent-suite",
                                                   "SOLID-SRP"} }

\* Python truthiness of `str | None`.
Truthy(n) == n.given /\ n.name # ""

\* Suites a caller hands to run_test_suite directly: the registered ones,
\* a three-case suite worth 2/3/5 points, and a suite without cases.
FixtureSuites ==
    { ModuleTestSuite("fixture-2-3-5",
                      << TestCase("a", 2), TestCase("b", 3),
                         TestCase("c", 5) >>),
      ModuleTestSuite("fixture-empty", << >>) }

DirectSuites ==
    { initialize_test_suites[k] : k \in SuiteKeys } \cup FixtureSuites

-----------------------------------------------------------------------------
(* SolutionImporter.import_solution *)

\* The exception raised inside the try block while the spec is built and
\* the top-level code of the file is executed (NoExc: none).
LoadRaises(file) ==
    IF ~file.exists THEN Exc("FileNotFoundError", "No such file or directory")
    ELSE IF file.load = "raise" THEN Exc("SyntaxError", "invalid syntax")
    ELSE IF file.load = "exit" THEN Exc("SystemExit", "1")
    ELSE NoExc

\* The clause `except Exception as e` of import_solution.
ImportCatches(e) == IsException(e)

\* kind "module": the module is returned; "None": the exception was caught,
\* the diagnostic printed and None returned; "raise": e leaves the call.
import_solution(file) ==
    LET e == LoadRaises(file) IN
    IF e = NoExc THEN [kind |-> "module", exc |-> NoExc]
    ELSE IF ImportCatches(e) THEN [kind |-> "None", exc |-> NoExc]
    ELSE [kind |-> "raise", exc |-> e]

-----------------------------------------------------------------------------
(* TestRunner.run_test_case *)

\* A file fixes what check number i does when it is called.
CheckBehaviour(file, i) == file.checks[((i - 1) % PatternLen) + 1]

\* The exception a check raises (NoExc: it returns normally).
CheckRaises(b) ==
    CASE b = "assert" -> Exc("AssertionError", "X missing")
      [] b = "raise"  -> Exc("KeyError", "'y'")
      [] b = "exit"   -> Exc("SystemExit", "1")
      [] OTHER        -> NoExc

\* error_message is a string; it is kept as the sequence of the pieces
\* it is formatted from.
TestExecutionResult(test_case, result, error_message, score) ==
    [test_case |-> test_case, result |-> result,
     error_message |-> error_message, score |-> score]

\* Variant: a passed check earns one point more than its case is worth.
PassResult_Bonus(test_case) ==
    TestExecutionResult(test_case, "PASS", << >>, test_case.points + 1)

PassResult(test_case) ==
    TestExecutionResult(test_case, "PASS", << >>, test_case.points)

\* Variant: a failed check keeps the points of its case.
FailResult_KeepsPoints(test_case, e) ==
    TestExecutionResult(test_case, "FAIL", << e.msg >>, test_case.points)

FailResult(test_case, e) ==
    TestExecutionResult(test_case, "FAIL", << e.msg >>, 0)

ErrorResult(test_case, e) ==
    TestExecutionResult(test_case, "ERROR", << e.type, ": ", e.msg >>, 0)

\* The clause `except Exception as e` of run_test_case.
CaseCatches(e) == IsException(e)

\* returned: whether the call returns (result) or e leaves the call (exc).
run_test_case(test_case, b) ==
    LET e == CheckRaises(b) IN
    IF e = NoExc THEN
        [returned |-> TRUE, result |-> PassResult(test_case), exc |-> NoExc]
    ELSE IF IsAssertionError(e) THEN
        [returned |-> TRUE, result |-> FailResult(test_case, e), exc |-> NoExc]
    ELSE IF CaseCatches(e) THEN
        [returned |-> TRUE, result |-> ErrorResult(test_case, e), exc |-> NoExc]
    ELSE
        [returned |-> FALSE, result |-> PassResult(test_case), exc |-> e]

-----------------------------------------------------------------------------
(* TestRunner.run_test_suite: the values it builds *)

\* (total_score / max_points) * 100, kept exact as << numerator, denominator >>.
Percentage(total, max_points) ==
    IF max_points > 0 THEN << total * 100, max_points >> ELSE << 0, 1 >>

\* The report returned when import_solution returned None.
ImportFailedReport(suite) ==
    [module |-> suite.module_name, status |-> "error",
     error |-> << "Failed to import solution" >>, results |-> << >>]

\* The outcomes of find_design_patterns and find_classes are carried as
\* opaque values; without a tree the report holds {} and [].
CompletedReport(suite, score, case_results, t) ==
    [module |-> suite.module_name, status |-> "completed",
     total_score |-> score, max_score |-> suite.max_points,
     percentage |-> Percentage(score, suite.max_points),
     results |-> case_results,
     detected_patterns |->
         IF t = "tree" THEN << "find_design_patterns(tree)" >> ELSE << >>,
     found_classes |->
         IF t = "tree" THEN << "find_classes(tree)" >> ELSE << >>]

\* CodeAnalyzer.parse_code as run_test_suite sees it: a tree or None.
parse_code(file) == IF file.parses THEN "tree" ELSE "None"

\* The exception of `open(path)` / `f.read()` (NoExc: the text is read).
ReadRaises(file) ==
    IF ~file.exists THEN Exc("FileNotFoundError", "No such file or directory")
    ELSE IF ~file.readable THEN Exc("UnicodeDecodeError", "can't decode byte")
    ELSE NoExc

Event(ev, key, idx, mod) == [ev |-> ev, key |-> key, idx |-> idx, mod |-> mod]

Count(ev) == Cardinality({ i \in 1..Len(log) : log[i].ev = ev })

-----------------------------------------------------------------------------
(* State after AutomatedTester() has been constructed. *)

NoCase == [called |-> FALSE, behaviour |-> "return", returned |-> FALSE,
           result |-> PassResult(TestCase("", 0))]

NoSuite == ModuleTestSuite("", << >>)

\* No earlier call is being repeated.
NoFirst == [present |-> FALSE, pc |-> "idle", ret |-> << >>, exc |-> NoExc]

\* The analyzer has been given nothing and has not been called.
NoSource == [parses |-> TRUE, body |-> << >>]

NoAnalysis == [fn |-> "none"]

\* generate_report has not been called.
NoReport == [called |-> FALSE]

\* The caller holds no suite object of its own.
NoSuiteObject == [made |-> FALSE]

\* The locals of a call before its first statement.
FreshCall ==
    /\ results = << >>
    /\ pending = << >>
    /\ rs_key = ""
    /\ rs_suite = NoSuite
    /\ solution = 0
    /\ tree = "unset"
    /\ test_results = << >>
    /\ total_score = 0
    /\ lastCase = NoCase
    /\ lastImport = "none"
    /\ ret = << >>
    /\ exc = NoExc
    /\ log = << >>

Init ==
    /\ test_suites = initialize_test_suites
    /\ pc = "idle"
    /\ top = "none"
    /\ solution_file = MissingFile
    /\ test_suite_name = None
    /\ FreshCall
    /\ first = NoFirst
    /\ generated = NoReport
    /\ own_suite = NoSuiteObject
    /\ code = NoSource
    /\ analysis = NoAnalysis

Idle == pc = "idle"

\* The call has ended: its value or its exception is with the caller.
Ended == pc \in {"returned", "raised"}

\* A call starts with fresh locals.
StartCall ==
    /\ results' = << >>
    /\ pending' = << >>
    /\ solution' = 0
    /\ tree' = "unset"
    /\ test_results' = << >>
    /\ total_score' = 0
    /\ lastCase' = NoCase
    /\ lastImport' = "none"
    /\ ret' = << >>
    /\ exc' = NoExc
    /\ log' = << >>

\* The caller invokes tester.test_solution(solution_file, test_suite_name).
Call_test_solution ==
    /\ Idle
    /\ \E f \in Files, n \in SuiteNames :
          /\ solution_file' = f
          /\ test_suite_name' = n
    /\ top' = "test_solution"
    /\ pc' = "ts_exists"
    /\ rs_key' = ""
    /\ rs_suite' = NoSuite
    /\ StartCall
    /\ first' = NoFirst
    /\ UNCHANGED << test_suites, analyzer, generated, own_suite >>

\* A second AutomatedTester() is constructed: its registry is built anew.
NewFacade == test_suites' = initialize_test_suites

\* A facade whose suites lose their cases once they have been used.
SameFacade_Drained ==
    test_suites' = [k \in SuiteKeys |->
                       ModuleTestSuite(test_suites[k].module_name, << >>)]

\* A facade whose suites forget their maximum once a call has ended.
SameFacade_Rescored ==
    test_suites' = [k \in SuiteKeys |->
                       [test_suites[k] EXCEPT !.max_points = 0]]

\* The same facade is used again: its registry is whatever it is now.
SameFacade == test_suites' = test_suites

\* The caller repeats the call that has just ended, with the same file
\* (unmodified) and the same suite name, on the same facade or on a new
\* one, and keeps the outcome of the first call for comparison.
Call_test_solution_again ==
    /\ Ended
    /\ top = "test_solution"
    /\ ~first.present
    /\ first' = [present |-> TRUE, pc |-> pc, ret |-> ret, exc |-> exc]
    /\ \/ SameFacade
       \/ NewFacade
    /\ pc' = "ts_exists"
    /\ rs_key' = ""
    /\ rs_suite' = NoSuite
    /\ StartCall
    /\ UNCHANGED << top, solution_file, test_suite_name, analyzer,
                    own_suite >>
    /\ generated' = NoReport

\* The caller invokes runner.run_test_suite(test_suite, solution_file_path).
Call_run_test_suite ==
    /\ Idle
    /\ \E f \in Files, s \in DirectSuites :
          /\ solution_file' = f
          /\ rs_suite' = s
    /\ test_suite_name' = None
    /\ top' = "run_test_suite"
    /\ pc' = "rs_import"
    /\ rs_key' = "direct"
    /\ StartCall
    /\ first' = NoFirst
    /\ UNCHANGED << test_suites, analyzer, generated, own_suite >>

\* The caller has used the outcome of the call; the facade is ready for
\* the next call.  Nothing of the call survives but the registry.
Caller_Done ==
    /\ Ended
    /\ pc' = "idle"
    /\ top' = "none"
    /\ solution_file' = MissingFile
    /\ test_suite_name' = None
    /\ rs_key' = ""
    /\ rs_suite' = NoSuite
    /\ StartCall
    /\ first' = NoFirst
    /\ generated' = NoReport
    /\ UNCHANGED << test_suites, analyzer, own_suite >>

-----------------------------------------------------------------------------
(* AutomatedTester.test_solution *)

\* Variant: the existence of the file is not checked.
FileNotFound_Unchecked(file) == FALSE

\* `if not os.path.exists(solution_file): ... return {"error": error_msg}`,
\* else `results = {}`.
FileNotFound(file) == ~file.exists

TS_Exists ==
    /\ pc = "ts_exists"
    /\ IF FileNotFound(solution_file)
       THEN /\ ret' = [error |-> << "Solution file not found: ",
                                    "{solution_file}" >>]
            /\ pc' = "returned"
            /\ UNCHANGED results
       ELSE /\ results' = << >>
            /\ pc' = "ts_dispatch"
            /\ UNCHANGED ret
    /\ UNCHANGED << analyzer, first, generated, own_suite >>
    /\ UNCHANGED << test_suites, top, solution_file, test_suite_name, pending,
                    rs_key, rs_suite, solution, tree, test_results,
                    total_score, lastCase, lastImport, exc, log >>

\* `if test_suite_name:` selects the single-suite branch.
NamedBranch(n) == Truthy(n)

\* Entering run_test_suite(suite, solution_file) for registry key k.
EnterSuite(k) ==
    /\ rs_key' = k
    /\ rs_suite' = test_suites[k]
    /\ solution' = 0
    /\ tree' = "unset"
    /\ test_results' = << >>
    /\ total_score' = 0
    /\ pc' = "rs_import"

\* The if/else on test_suite_name up to the first call of run_test_suite.
TS_Dispatch ==
    /\ pc = "ts_dispatch"
    /\ IF NamedBranch(test_suite_name)
       THEN IF test_suite_name.name \in DOMAIN test_suites
            THEN /\ EnterSuite(test_suite_name.name)
                 /\ UNCHANGED << ret, pending >>
            ELSE /\ ret' = [error |-> << "Test suite not found: ",
                                         test_suite_name.name >>]
                 /\ pc' = "returned"
                 /\ UNCHANGED << pending, rs_key, rs_suite, solution, tree,
                                 test_results, total_score >>
       ELSE /\ pending' = SuiteOrder
            /\ pc' = "ts_loop"
            /\ UNCHANGED << ret, rs_key, rs_suite, solution, tree,
                            test_results, total_score >>
    /\ UNCHANGED << analyzer, first, generated, own_suite >>
    /\ UNCHANGED << test_suites, top, solution_file, test_suite_name, results,
                    lastCase, lastImport, exc, log >>

\* One iteration of `for suite_name, suite in self.test_suites.items()`.
TS_Loop ==
    /\ pc = "ts_loop"
    /\ pending # << >>
    /\ EnterSuite(Head(pending))
    /\ pending' = Tail(pending)
    /\ UNCHANGED << analyzer, first, generated, own_suite >>
    /\ UNCHANGED << test_suites, top, solution_file, test_suite_name, results,
                    lastCase, lastImport, ret, exc, log >>

\* `return results`.
TS_Return ==
    /\ \/ pc = "ts_return"
       \/ pc = "ts_loop" /\ pending = << >>
    /\ ret' = results
    /\ pc' = "returned"
    /\ UNCHANGED << analyzer, first, generated, own_suite >>
    /\ UNCHANGED << test_suites, top, solution_file, test_suite_name, results,
                    pending, rs_key, rs_suite, solution, tree, test_results,
                    total_score, lastCase, lastImport, exc, log >>

\* The report stored for a suite whose run raised inside the for loop.
SuiteExceptionEntry(e) == [status |-> "error", error |-> << e.msg >>]

\* The clause `except Exception as e` around run_test_suite in the for loop.
SuiteCatches(e) == IsException(e)

\* run_test_suite returns report to its caller.
ReturnFromSuite(report) ==
    IF top = "run_test_suite"
    THEN /\ ret' = report
         /\ pc' = "returned"
         /\ UNCHANGED << results, exc >>
    ELSE /\ results' = (rs_key :> report) @@ results
         /\ pc' = IF NamedBranch(test_suite_name) THEN "ts_return" ELSE "ts_loop"
         /\ UNCHANGED << ret, exc >>

\* Exception e leaves run_test_suite: only the for loop of the all-suites
\* branch has a handler.
RaiseFromSuite(e) ==
    IF top = "test_solution" /\ ~NamedBranch(test_suite_name) /\ SuiteCatches(e)
    THEN /\ results' = (rs_key :> SuiteExceptionEntry(e)) @@ results
         /\ pc' = "ts_loop"
         /\ UNCHANGED << ret, exc >>
    ELSE /\ exc' = e
         /\ pc' = "raised"
         /\ UNCHANGED << results, ret >>

-----------------------------------------------------------------------------
(* TestRunner.run_test_suite *)

\* Variant: the early return after a failed import is missing.
ImportFailed_NoEarlyReturn(outcome) == FALSE

\* A loader that hands out one cached module object for every load.
NewModule_Cached ==
    IF Count("import") = 0 THEN Count("import") + 1
    ELSE SelectSeq(log, LAMBDA e : e.ev = "import")[1].mod

\* `module = importlib.util.module_from_spec(spec)`: every load creates a
\* new module object (nothing is taken from or put into sys.modules); the
\* objects are numbered in the order of their creation.
NewModule == Count("import") + 1

\* `if solution is None:` after the import.
ImportFailed(outcome) == outcome.kind = "None"

\* `solution = SolutionImporter.import_solution(path)` and the early return
\* when it is None.  Every load creates a new module object; they are
\* numbered in the order of their creation.
RS_Import ==
    /\ pc = "rs_import"
    /\ LET outcome == import_solution(solution_file)
           loaded  == NewModule
       IN
       /\ lastImport' = outcome.kind
       /\ IF outcome.kind = "raise"
          THEN /\ log' = Append(log, Event("import_raised", rs_key, 0, 0))
               /\ RaiseFromSuite(outcome.exc)
               /\ UNCHANGED solution
          ELSE IF ImportFailed(outcome)
          THEN /\ log' = Append(log, Event("import_failed", rs_key, 0, 0))
               /\ ReturnFromSuite(ImportFailedReport(rs_suite))
               /\ UNCHANGED solution
          ELSE /\ log' = Append(log, Event("import", rs_key, 0, loaded))
               /\ solution' = IF outcome.kind = "module" THEN loaded ELSE 0
               /\ pc' = "rs_read"
               /\ UNCHANGED << results, ret, exc >>
    /\ UNCHANGED << analyzer, first, generated, own_suite >>
    /\ UNCHANGED << test_suites, top, solution_file, test_suite_name, pending,
                    rs_key, rs_suite, tree, test_results, total_score,
                    lastCase >>

\* `with open(solution_file_path) as f: code_content = f.read()`.
RS_Read ==
    /\ pc = "rs_read"
    /\ log' = Append(log, Event("read", rs_key, 0, 0))
    /\ LET e == ReadRaises(solution_file) IN
       IF e # NoExc
       THEN RaiseFromSuite(e)
       ELSE /\ pc' = "rs_analyze"
            /\ UNCHANGED << results, ret, exc >>
    /\ UNCHANGED << analyzer, first, generated, own_suite >>
    /\ UNCHANGED << test_suites, top, solution_file, test_suite_name, pending,
                    rs_key, rs_suite, solution, tree, test_results,
                    total_score, lastCase, lastImport >>

\* `tree = CodeAnalyzer.parse_code(code_content)`, the analysis under
\* `if tree:`, and the initialisation of test_results and total_score.
RS_Analyze ==
    /\ pc = "rs_analyze"
    /\ tree' = parse_code(solution_file)
    /\ log' = Append(log, Event("parse", rs_key, 0, 0))
    /\ test_results' = << >>
    /\ total_score' = 0
    /\ pc' = "rs_cases"
    /\ UNCHANGED << analyzer, first, generated, own_suite >>
    /\ UNCHANGED << test_suites, top, solution_file, test_suite_name, results,
                    pending, rs_key, rs_suite, solution, lastCase, lastImport,
                    ret, exc >>

\* The case the for loop over test_suite.test_cases reaches next.
NextIndex == Len(test_results) + 1

\* One iteration of the loop: run the case, append its result, add its score.
RS_RunCase ==
    /\ pc = "rs_cases"
    /\ NextIndex <= Len(rs_suite.test_cases)
    /\ LET test_case == rs_suite.test_cases[NextIndex]
           b == CheckBehaviour(solution_file, NextIndex)
           r == run_test_case(test_case, b)
       IN
       /\ log' = Append(log, Event("check", rs_key, NextIndex, solution))
       /\ lastCase' = [called |-> TRUE, behaviour |-> b,
                       returned |-> r.returned, result |-> r.result]
       /\ IF r.returned
          THEN /\ test_results' = Append(test_results, r.result)
               /\ total_score' = total_score + r.result.score
               /\ UNCHANGED << pc, results, ret, exc >>
          ELSE /\ RaiseFromSuite(r.exc)
               /\ UNCHANGED << test_results, total_score >>
    /\ UNCHANGED << analyzer, first, generated, own_suite >>
    /\ UNCHANGED << test_suites, top, solution_file, test_suite_name, pending,
                    rs_key, rs_suite, solution, tree, lastImport >>

\* After the loop: the percentage and the returned report.
RS_Finish ==
    /\ pc = "rs_cases"
    /\ NextIndex > Len(rs_suite.test_cases)
    /\ ReturnFromSuite(CompletedReport(rs_suite, total_score, test_results, tree))
    /\ UNCHANGED << analyzer, first, generated, own_suite >>
    /\ UNCHANGED << test_suites, top, solution_file, test_suite_name, pending,
                    rs_key, rs_suite, solution, tree, test_results,
                    total_score, lastCase, lastImport, log >>

-----------------------------------------------------------------------------
(* AutomatedTester.generate_report                                         *)
(*                                                                         *)
(* The report is a list of lines and a line is a sequence of pieces of     *)
(* text.  The pictographs that open some lines, the line with the time of  *)
(* generation and the two optional lines that list detected patterns and   *)
(* found classes are left out; the description of a case is represented by *)
(* its name.                                                               *)

\* The state a grading call is described by.
call == << test_suites, pc, top, solution_file, test_suite_name, results,
           pending, rs_key, rs_suite, solution, tree, test_results,
           total_score, lastCase, lastImport, ret, exc, log, first >>

\* The keys of the mapping in the order `test_results.items()` yields them:
\* insertion order, which for test_solution is the order of the registry.
items(all_results) ==
    SelectSeq(SuiteOrder \o << "error" >>,
              LAMBDA k : k \in DOMAIN all_results)

\* The value stored under this key is a string and not a report: the
\* only string test_solution puts in its result is the message it stores
\* under the key "error" for a missing file or an unknown suite name.
IsMessage(suite_name) == suite_name = "error"

\* `results['error']` and `results['module']` on a str.
StrSubscript == Exc("TypeError", "string indices must be integers, not 'str'")

\* f"{x}" of total_score: run_test_suite starts from 0.0, so the score of a
\* report is a float; the sum in generate_report starts from the int 0 and
\* becomes a float with the first report added.
FormatFloat(x) == << ToString(x), ".0" >>

\* f"{x:.1f}" of the value p[1] / p[2] >= 0: one decimal, rounded half to
\* even.  The float of the code is not the exact value, but it rounds to
\* the same decimal for every score and maximum up to 399 points except
\* where the maximum is a multiple of 80.
Format1f(p) ==
    LET n == p[1] * 10
        q == n \div p[2]
        r == n % p[2]
        t == IF 2 * r > p[2] \/ (2 * r = p[2] /\ q % 2 = 1) THEN q + 1 ELSE q
    IN  << ToString(t \div 10), ".", ToString(t % 10) >>

\* A banding whose bounds are exclusive.
band_Exclusive(overall_percentage) ==
    IF overall_percentage[1] > 90 * overall_percentage[2]
    THEN << "Excellent work!" >>
    ELSE IF overall_percentage[1] > 75 * overall_percentage[2]
    THEN << "Good job!" >>
    ELSE IF overall_percentage[1] > 60 * overall_percentage[2]
    THEN << "Keep improving!" >>
    ELSE << "More practice needed!" >>

\* The if / elif / elif / else chain on overall_percentage.  The float
\* comparisons of the code agree with the exact ones for every score and
\* maximum up to 399 points.
band(overall_percentage) ==
    IF overall_percentage[1] >= 90 * overall_percentage[2]
    THEN << "Excellent work!" >>
    ELSE IF overall_percentage[1] >= 75 * overall_percentage[2]
    THEN << "Good job!" >>
    ELSE IF overall_percentage[1] >= 60 * overall_percentage[2]
    THEN << "Keep improving!" >>
    ELSE << "More practice needed!" >>

\* The lines of one TestExecutionResult.
ResultLines(test_result) ==
    << << "  ", IF test_result.result = "PASS" THEN "passed" ELSE "failed",
          " ", test_result.test_case.name >> >>
    \o (IF test_result.error_message # << >>
        THEN << << "     Error: " >> \o test_result.error_message >>
        ELSE << >>)

RECURSIVE AllResultLines(_)
AllResultLines(case_results) ==
    IF case_results = << >> THEN << >>
    ELSE ResultLines(Head(case_results)) \o AllResultLines(Tail(case_results))

\* The lines of a report without the key "error".
SuiteLines(r) ==
    << << r.module >>,
       << "------------------------------" >>,
       << "Score: " >> \o FormatFloat(r.total_score)
           \o << "/", ToString(r.max_score), " (" >>
           \o Format1f(r.percentage) \o << "%)" >> >>
    \o AllResultLines(r.results)
    \o << << "" >> >>

\* The locals of generate_report before the for loop.
ReportStart ==
    [report |-> << << "AUTOMATED TESTING REPORT" >>,
                   << "==================================================" >>,
                   << "" >> >>,
     total_score |-> 0, total_max_score |-> 0, is_float |-> FALSE,
     exc |-> NoExc]

\* A loop that adds the maximum of a suite in error to the aggregate.
ErrorEntry_Counted(self, suite_name, r) ==
    [self EXCEPT !.report = Append(@, << suite_name, ": " >> \o r.error),
                 !.total_max_score = @ + 1]

\* `if "error" in results: report.append(...); continue`
ErrorEntry(self, suite_name, r) ==
    [self EXCEPT !.report = Append(@, << suite_name, ": " >> \o r.error)]

\* The for loop over test_results.items().  On a str, `"error" in results`
\* is a substring test; when it is true `results['error']` is evaluated and
\* when it is false `results['module']`, and each raises TypeError.
RECURSIVE ReportLoop(_, _, _)
ReportLoop(self, keys, all_results) ==
    IF keys = << >> THEN self
    ELSE LET suite_name == Head(keys)
             r == all_results[suite_name]
         IN  IF IsMessage(suite_name)
             THEN [self EXCEPT !.exc = StrSubscript]
             ELSE IF "error" \in DOMAIN r
             THEN ReportLoop(ErrorEntry(self, suite_name, r), Tail(keys),
                             all_results)
             ELSE ReportLoop(
                      [self EXCEPT !.report = @ \o SuiteLines(r),
                                   !.total_score = @ + r.total_score,
                                   !.total_max_score = @ + r.max_score,
                                   !.is_float = TRUE],
                      Tail(keys), all_results)

\* The lines after the loop.
Summary(self) ==
    LET overall_percentage ==
            IF self.total_max_score > 0
            THEN << self.total_score * 100, self.total_max_score >>
            ELSE << 0, 1 >>
    IN  << << "OVERALL SUMMARY" >>,
           << "--------------------" >>,
           << "Total Score: " >>
               \o (IF self.is_float THEN FormatFloat(self.total_score)
                   ELSE << ToString(self.total_score) >>)
               \o << "/", ToString(self.total_max_score), " (" >>
               \o Format1f(overall_percentage) \o << "%)" >>,
           band(overall_percentage) >>

\* How a call generate_report(test_results) ends: with the text (its
\* lines), or with an exception.
generate_report(all_results) ==
    LET self == ReportLoop(ReportStart, items(all_results), all_results)
    IN  IF self.exc # NoExc
        THEN [called |-> TRUE, test_results |-> all_results,
              raised |-> TRUE, exc |-> self.exc, text |-> << >>]
        ELSE [called |-> TRUE, test_results |-> all_results,
              raised |-> FALSE, exc |-> NoExc,
              text |-> self.report \o Summary(self)]

\* The caller passes the value test_solution returned to generate_report,
\* as main does with --report.
Call_generate_report ==
    /\ pc = "returned"
    /\ top = "test_solution"
    /\ ~generated.called
    /\ generated' = generate_report(ret)
    /\ UNCHANGED << call, own_suite, analyzer >>

-----------------------------------------------------------------------------

Next ==
    \/ Call_test_solution
    \/ Call_run_test_suite
    \/ Call_test_solution_again
    \/ Caller_Done
    \/ TS_Exists
    \/ TS_Dispatch
    \/ TS_Loop
    \/ TS_Return
    \/ RS_Import
    \/ RS_Read
    \/ RS_Analyze
    \/ RS_RunCase
    \/ RS_Finish
    \/ Call_generate_report

Spec == Init /\ [][Next]_vars

\* The steps of a call are taken until it returns or raises.
FairSpec == Spec /\ WF_vars(TS_Exists \/ TS_Dispatch \/ TS_Loop \/ TS_Return
                            \/ RS_Import \/ RS_Read \/ RS_Analyze
                            \/ RS_RunCase \/ RS_Finish)

TypeOK ==
    /\ pc \in {"idle", "returned", "raised", "ts_exists", "ts_dispatch",
               "ts_loop", "ts_return", "rs_import", "rs_read", "rs_analyze",
               "rs_cases"}
    /\ top \in {"none", "test_solution", "run_test_suite"}
    /\ solution_file \in Files
    /\ test_suite_name \in SuiteNames
    /\ tree \in {"unset", "None", "tree"}
    /\ lastImport \in {"none", "module", "None", "raise"}
    /\ total_score \in Nat
    /\ solution \in Nat
    /\ first.present \in BOOLEAN
    /\ first.pc \in {"idle", "returned", "raised"}

-----------------------------------------------------------------------------
(* CodeAnalyzer.  A source text is described by whether it parses and by   *)
(* the class and function definitions of its syntax tree, nested as in the *)
(* text; the statements no visitor reacts to are left out.  A name is the  *)
(* sequence of its fragments ("get_instance" is << "get", "_instance" >>): *)
(* every word the analyzer searches for is made of whole fragments.        *)

\* The largest number of definitions in a source text given to
\* find_design_patterns, and in one given to the other methods.
MaxPatternNodes == 2

MaxNodes == 3

\* str.lower() on a fragment.
Lower(f) ==
    CASE f = "Singleton" -> "singleton"
      [] f = "Factory"   -> "factory"
      [] f = "STRATEGY"  -> "strategy"
      [] f = "Observer"  -> "observer"
      [] f = "Decorator" -> "decorator"
      [] f = "Command"   -> "command"
      [] f = "Build"     -> "build"
      [] f = "Create"    -> "create"
      [] f = "Order"     -> "order"
      [] f = "Test"      -> "test"
      [] f = "Bar"       -> "bar"
      [] f = "Inner"     -> "inner"
      [] OTHER           -> f

\* name.lower()
lower(name) == [i \in 1..Len(name) |-> Lower(name[i])]

\* name.startswith(word)
startswith(name, word) ==
    /\ Len(word) <= Len(name)
    /\ SubSeq(name, 1, Len(word)) = word

\* `word in text`: word is a contiguous part of text.
Contains(word, text) ==
    \E i \in 1..(Len(text) - Len(word) + 1) :
        SubSeq(text, i, i + Len(word) - 1) = word

\* " ".join(names)
RECURSIVE join(_)
join(names) ==
    IF names = << >> THEN << >>
    ELSE IF Len(names) = 1 THEN names[1]
    ELSE names[1] \o << " " >> \o join(Tail(names))

\* The nodes of the tree the visitors react to.
ClassDef(name, bases, body) ==
    [kind |-> "ClassDef", name |-> name, bases |-> bases,
     decorator_list |-> << >>, body |-> body]

FunctionDef(name, decorator_list, body) ==
    [kind |-> "FunctionDef", name |-> name, bases |-> << >>,
     decorator_list |-> decorator_list, body |-> body]

AsyncFunctionDef(name, decorator_list, body) ==
    [kind |-> "AsyncFunctionDef", name |-> name, bases |-> << >>,
     decorator_list |-> decorator_list, body |-> body]

\* A decorator expression: `@abstractmethod` is a Name, `@abc.abstractmethod`
\* an Attribute.
Name(id) == [form |-> "Name", id |-> id]

Attribute(value, attr) == [form |-> "Attribute", value |-> value, attr |-> attr]

\* ast.parse(code_content), or None on SyntaxError.
Module(body) == [kind |-> "Module", body |-> body]

NoTree == [kind |-> "None", body |-> << >>]

\* A parser that reads a text with a syntax error as an empty module.
ast_parse_Lenient(source) ==
    IF source.parses THEN Module(source.body) ELSE Module(<< >>)

ast_parse(source) == IF source.parses THEN Module(source.body) ELSE NoTree

\* All definitions of a body, at every depth.
RECURSIVE Nodes(_)
Nodes(body) ==
    IF body = << >> THEN { }
    ELSE { Head(body) } \cup Nodes(Head(body).body) \cup Nodes(Tail(body))

RECURSIVE Size(_)
Size(body) ==
    IF body = << >> THEN 0
    ELSE 1 + Size(Head(body).body) + Size(Tail(body))

\* The ways n definitions can be nested in a text: the bodies of n blank
\* definitions.
Blank == [body |-> << >>]

RECURSIVE Shapes(_)
Shapes(n) ==
    IF n = 0 THEN { << >> }
    ELSE UNION { { << [Blank EXCEPT !.body = inner] >> \o rest :
                       inner \in Shapes(k - 1),
                       rest \in Shapes(n - k) } : k \in 1..n }

\* The text of a shape whose definitions, in document order from the k-th
\* on, are copies of the definitions chosen by `choice`.
RECURSIVE Written(_, _, _)
Written(shape, choice, k) ==
    IF shape = << >> THEN << >>
    ELSE << [choice[k] EXCEPT
                !.body = Written(Head(shape).body, choice, k + 1)] >>
         \o Written(Tail(shape), choice, k + 1 + Size(Head(shape).body))

\* code is a parsable text of at most n definitions taken from pool.
IsSource(pool, n) ==
    \E k \in 0..n : \E shape \in Shapes(k) : \E choice \in [1..k -> pool] :
        code = [parses |-> TRUE, body |-> Written(shape, choice, 1)]

-----------------------------------------------------------------------------
(* CodeAnalyzer.find_design_patterns *)

PatternNames ==
    {"singleton", "factory", "strategy", "observer", "decorator", "command",
     "builder"}

\* PatternVisitor.__init__
PatternVisitor ==
    [class_names |-> << >>, method_names |-> << >>,
     has_abstract_methods |-> FALSE, has_inheritance |-> FALSE]

\* A visitor that takes the flag from the class it has visited last.
has_inheritance_LastClass(seen, node) == node.bases # << >>

\* `if node.bases: self.has_inheritance = True`
has_inheritance(seen, node) == IF node.bases # << >> THEN TRUE ELSE seen

\* The loop over node.body looking for `@abstractmethod` on a FunctionDef.
has_abstract_methods(seen, node) ==
    IF \E i \in 1..Len(node.body) :
           /\ node.body[i].kind = "FunctionDef"
           /\ \E j \in 1..Len(node.body[i].decorator_list) :
                  LET decorator == node.body[i].decorator_list[j] IN
                  /\ decorator.form = "Name"
                  /\ decorator.id = "abstractmethod"
    THEN TRUE
    ELSE seen

\* visitor.visit(node) and generic_visit over a body, in document order.
\* An AsyncFunctionDef has no visit method: only its body is visited.
RECURSIVE PatternVisitor_visit(_, _), PatternVisitor_generic_visit(_, _)
PatternVisitor_visit(self, node) ==
    CASE node.kind = "ClassDef" ->
           PatternVisitor_generic_visit(
               [self EXCEPT
                   !.class_names = Append(@, lower(node.name)),
                   !.has_inheritance = has_inheritance(@, node),
                   !.has_abstract_methods = has_abstract_methods(@, node)],
               node.body)
      [] node.kind = "FunctionDef" ->
           PatternVisitor_generic_visit(
               [self EXCEPT !.method_names = Append(@, lower(node.name))],
               node.body)
      [] OTHER -> PatternVisitor_generic_visit(self, node.body)

PatternVisitor_generic_visit(self, body) ==
    IF body = << >> THEN self
    ELSE PatternVisitor_generic_visit(PatternVisitor_visit(self, Head(body)),
                                      Tail(body))

\* A rule that is content with either half of the command pattern.
Command_Either(class_names, method_names) ==
    \/ Contains(<< "command" >>, class_names)
    \/ Contains(<< "execute" >>, method_names)

\* `if "command" in class_names and "execute" in method_names:`
Command(class_names, method_names) ==
    /\ Contains(<< "command" >>, class_names)
    /\ Contains(<< "execute" >>, method_names)

find_design_patterns(t) ==
    LET visitor      == PatternVisitor_generic_visit(PatternVisitor, t.body)
        class_names  == join(visitor.class_names)
        method_names == join(visitor.method_names)
    IN  [p \in PatternNames |->
            CASE p = "singleton" ->
                   \/ Contains(<< "singleton" >>, class_names)
                   \/ Contains(<< "_instance" >>, method_names)
              [] p = "factory" ->
                   \/ Contains(<< "factory" >>, class_names)
                   \/ Contains(<< "create" >>, method_names)
                   \/ Contains(<< "make" >>, method_names)
              [] p = "strategy" ->
                   /\ visitor.has_abstract_methods
                   /\ visitor.has_inheritance
                   /\ Contains(<< "strategy" >>, class_names)
              [] p = "observer" ->
                   \/ Contains(<< "observer" >>, class_names)
                   \/ Contains(<< "notify" >>, method_names)
                   \/ Contains(<< "subscribe" >>, method_names)
              [] p = "decorator" ->
                   \/ Contains(<< "decorator" >>, class_names)
                   \/ Contains(<< "wrap" >>, method_names)
              [] p = "command" -> Command(class_names, method_names)
              [] OTHER ->
                   \/ Contains(<< "build", "er" >>, class_names)
                   \/ Contains(<< "build" >>, method_names)]

\* The definitions the source texts given to find_design_patterns are made
\* of: one class and one function for every word of the rules, in mixed
\* case, and the base classes and decorators the strategy rule looks at.
PatternPool ==
    { ClassDef(<< n >>, << >>, << >>) :
          n \in {"Singleton", "Factory", "Observer", "Decorator", "Command",
                 "Order"} }
    \cup { ClassDef(<< "Build", "er" >>, << >>, << >>),
           ClassDef(<< "Payment", "STRATEGY" >>, << >>, << >>),
           ClassDef(<< "Payment", "STRATEGY" >>, << "ABC" >>, << >>),
           ClassDef(<< "Order" >>, << "Base" >>, << >>) }
    \cup { FunctionDef(<< n >>, << >>, << >>) :
              n \in {"make", "notify", "subscribe", "execute", "build",
                     "run"} }
    \cup { FunctionDef(<< "get", "_instance" >>, << >>, << >>),
           FunctionDef(<< "Create", "Order" >>, << >>, << >>),
           FunctionDef(<< "wrap", "per" >>, << >>, << >>),
           FunctionDef(<< "run" >>, << Name("abstractmethod") >>, << >>),
           FunctionDef(<< "run" >>,
                       << Attribute("abc", "abstractmethod") >>, << >>),
           FunctionDef(<< "run" >>,
                       << Name("staticmethod"), Name("abstractmethod") >>,
                       << >>),
           AsyncFunctionDef(<< "notify" >>, << >>, << >>),
           AsyncFunctionDef(<< "run" >>, << Name("abstractmethod") >>,
                            << >>) }

-----------------------------------------------------------------------------
(* Calls of the analyzer's methods on a source text.  No grading call is   *)
(* under way: the variables of the grader stay as they are after           *)
(* construction.                                                           *)

grader == << test_suites, pc, top, solution_file, test_suite_name, results,
             pending, rs_key, rs_suite, solution, tree, test_results,
             total_score, lastCase, lastImport, ret, exc, log, first,
             generated, own_suite >>

\* A constructed facade on which no call has been made.
InitCall ==
    /\ test_suites = initialize_test_suites
    /\ pc = "idle"
    /\ top = "none"
    /\ solution_file = MissingFile
    /\ test_suite_name = None
    /\ FreshCall
    /\ first = NoFirst

\* The state of the grader while the analyzer is at work.
InitGrader ==
    /\ InitCall
    /\ generated = NoReport
    /\ own_suite = NoSuiteObject

\* `patterns = CodeAnalyzer.find_design_patterns(tree)` on a parsed text.
\* The result is kept together with the one obtained before the text was
\* last edited, if it has been.
Call_find_design_patterns ==
    /\ analysis.fn \in {"none", "edit"}
    /\ code.parses
    /\ analysis' = [fn      |-> "find_design_patterns",
                    value   |-> find_design_patterns(ast_parse(code)),
                    edited  |-> analysis.fn = "edit",
                    earlier |-> IF analysis.fn = "edit" THEN analysis.earlier
                                ELSE << >>]
    /\ UNCHANGED << grader, code >>

\* The definitions a growing source text is made of; base classes and
\* decorators are added to them afterwards.
GrowthPool ==
    { ClassDef(<< "Payment", "STRATEGY" >>, << >>, << >>),
      ClassDef(<< "Command" >>, << >>, << >>),
      ClassDef(<< "Singleton" >>, << >>, << >>),
      FunctionDef(<< "execute" >>, << >>, << >>),
      FunctionDef(<< "build" >>, << >>, << >>) }

\* body with v written before its i-th definition (after the last one when
\* i = Len(body) + 1).
InsertAt(body, i, v) ==
    SubSeq(body, 1, i - 1) \o << v >> \o SubSeq(body, i, Len(body))

\* The texts obtained from a body by one addition: a class or a function
\* of the pool written anywhere, at any depth, a base class given to a class
\* that has none, or `@abstractmethod` put on a function that has no
\* decorator.  What was in the text stays where it was.
RECURSIVE Additions(_, _), Grown(_, _)
Additions(body, pool) ==
    { InsertAt(body, i, v) : i \in 1..(Len(body) + 1), v \in pool }
    \cup UNION { { [body EXCEPT ![i] = m] : m \in Grown(body[i], pool) } :
                    i \in 1..Len(body) }

Grown(node, pool) ==
    { [node EXCEPT !.body = b] : b \in Additions(node.body, pool) }
    \cup (IF node.kind = "ClassDef" /\ node.bases = << >>
          THEN { [node EXCEPT !.bases = << "Base" >>] }
          ELSE { })
    \cup (IF node.kind # "ClassDef" /\ node.decorator_list = << >>
          THEN { [node EXCEPT !.decorator_list = << Name("abstractmethod") >>] }
          ELSE { })

\* The author adds something to the text that has been analysed; the result
\* for the text as it was is kept for comparison.
Edit_Source ==
    /\ analysis.fn = "find_design_patterns"
    /\ \E b \in Additions(code.body, GrowthPool) :
           /\ Size(b) <= MaxNodes
           /\ code' = [code EXCEPT !.body = b]
    /\ analysis' = [fn |-> "edit", earlier |-> analysis.value]
    /\ UNCHANGED grader

InitGrowth ==
    /\ InitGrader
    /\ code = NoSource
    /\ analysis = NoAnalysis

NextGrowth ==
    \/ Call_find_design_patterns
    \/ Edit_Source

SpecGrowth == InitGrowth /\ [][NextGrowth]_vars

InitPatterns ==
    /\ InitGrader
    /\ IsSource(PatternPool, MaxPatternNodes)
    /\ analysis = NoAnalysis

NextPatterns == Call_find_design_patterns

SpecPatterns == InitPatterns /\ [][NextPatterns]_vars

-----------------------------------------------------------------------------
(* CodeAnalyzer.find_classes and CodeAnalyzer.find_methods *)

\* A visitor that does not look for classes inside functions.
RECURSIVE ClassVisitor_generic_visit_SkipFunctions(_, _)
ClassVisitor_generic_visit_SkipFunctions(classes, body) ==
    IF body = << >> THEN classes
    ELSE LET node == Head(body)
             seen == IF node.kind = "ClassDef"
                     THEN ClassVisitor_generic_visit_SkipFunctions(
                              Append(classes, node.name), node.body)
                     ELSE classes
         IN  ClassVisitor_generic_visit_SkipFunctions(seen, Tail(body))

\* ClassVisitor: visit_ClassDef appends the name and visits the body; the
\* bodies of other nodes are visited too.
RECURSIVE ClassVisitor_generic_visit(_, _)
ClassVisitor_generic_visit(classes, body) ==
    IF body = << >> THEN classes
    ELSE LET node == Head(body)
             seen == IF node.kind = "ClassDef" THEN Append(classes, node.name)
                     ELSE classes
         IN  ClassVisitor_generic_visit(
                 ClassVisitor_generic_visit(seen, node.body), Tail(body))

\* A find_classes that looks at the statements of the module only.
find_classes_TopLevel(t) ==
    LET classes == SelectSeq(t.body, LAMBDA node : node.kind = "ClassDef")
    IN  [i \in 1..Len(classes) |-> classes[i].name]

find_classes(t) == ClassVisitor_generic_visit(<< >>, t.body)

\* None where a class name is expected.
NoClass == << >>

\* MethodVisitor.__init__

MethodVisitor(target_class) ==
    [methods |-> << >>, target_class |-> target_class,
     current_class |-> NoClass]

\* A visitor that does not put the enclosing class back after a class body.
Leave_KeepInner(self, old_class) == self

\* `self.current_class = old_class`
Leave(self, old_class) == [self EXCEPT !.current_class = old_class]

RECURSIVE MethodVisitor_visit(_, _), MethodVisitor_generic_visit(_, _)
MethodVisitor_visit(self, node) ==
    CASE node.kind = "ClassDef" ->
           Leave(MethodVisitor_generic_visit(
                     [self EXCEPT !.current_class = node.name], node.body),
                 self.current_class)
      [] node.kind = "FunctionDef" ->
           MethodVisitor_generic_visit(
               IF \/ self.target_class = NoClass
                  \/ self.current_class = self.target_class
               THEN [self EXCEPT !.methods = Append(@, node.name)]
               ELSE self,
               node.body)
      [] OTHER -> MethodVisitor_generic_visit(self, node.body)

MethodVisitor_generic_visit(self, body) ==
    IF body = << >> THEN self
    ELSE MethodVisitor_generic_visit(MethodVisitor_visit(self, Head(body)),
                                     Tail(body))

find_methods(t, class_name) ==
    MethodVisitor_generic_visit(MethodVisitor(class_name), t.body).methods

\* The definitions the source texts given to find_classes and find_methods
\* are made of, and the class names find_methods is asked about.
TreePool ==
    { ClassDef(<< "Bar" >>, << >>, << >>),
      ClassDef(<< "Inner" >>, << >>, << >>),
      FunctionDef(<< "foo" >>, << >>, << >>),
      FunctionDef(<< "run" >>, << >>, << >>),
      AsyncFunctionDef(<< "fetch" >>, << >>, << >>) }

ClassNames == { NoClass, << "Bar" >>, << "Inner" >>, << "Other" >> }

\* `CodeAnalyzer.find_classes(tree)` on a parsed text.
Call_find_classes ==
    /\ analysis.fn = "none"
    /\ code.parses
    /\ analysis' = [fn    |-> "find_classes",
                    value |-> find_classes(ast_parse(code))]
    /\ UNCHANGED << grader, code >>

\* `CodeAnalyzer.find_methods(tree, class_name)` on a parsed text.
Call_find_methods ==
    /\ analysis.fn = "none"
    /\ code.parses
    /\ \E class_name \in ClassNames :
           analysis' = [fn         |-> "find_methods",
                        class_name |-> class_name,
                        value      |-> find_methods(ast_parse(code),
                                                   class_name)]
    /\ UNCHANGED << grader, code >>

InitTree ==
    /\ InitGrader
    /\ IsSource(TreePool, MaxNodes)
    /\ analysis = NoAnalysis

NextTree ==
    \/ Call_find_classes
    \/ Call_find_methods

SpecTree == InitTree /\ [][NextTree]_vars

-----------------------------------------------------------------------------
(* CodeAnalyzer.check_tdd_compliance *)

\* TDDVisitor.__init__
TDDVisitor ==
    [test_functions |-> << >>, implementation_functions |-> << >>,
     function_order |-> << >>]

\* A test for the word that does not lower the case of the name first.
is_test_CaseSensitive(func_name) ==
    \/ startswith(func_name, << "test", "_" >>)
    \/ Contains(<< "test" >>, func_name)

\* `func_name.startswith("test_") or "test" in func_name.lower()`
is_test(func_name) ==
    \/ startswith(func_name, << "test", "_" >>)
    \/ Contains(<< "test" >>, lower(func_name))

\* TDDVisitor has visit_FunctionDef only: the bodies of classes and of
\* async functions are visited, their own names are not looked at.
RECURSIVE TDDVisitor_visit(_, _), TDDVisitor_generic_visit(_, _)
TDDVisitor_visit(self, node) ==
    IF node.kind = "FunctionDef"
    THEN LET func_name == node.name
             ordered   == [self EXCEPT !.function_order = Append(@, func_name)]
             sorted    ==
                 IF is_test(func_name)
                 THEN [ordered EXCEPT !.test_functions = Append(@, func_name)]
                 ELSE IF ~startswith(func_name, << "_" >>)
                 THEN [ordered EXCEPT
                          !.implementation_functions = Append(@, func_name)]
                 ELSE ordered
         IN  TDDVisitor_generic_visit(sorted, node.body)
    ELSE TDDVisitor_generic_visit(self, node.body)

TDDVisitor_generic_visit(self, body) ==
    IF body = << >> THEN self
    ELSE TDDVisitor_generic_visit(TDDVisitor_visit(self, Head(body)),
                                  Tail(body))

\* list.index(f): the position of the first f, counted from 0.
index(list, f) ==
    (CHOOSE i \in 1..Len(list) :
         /\ list[i] = f
         /\ \A j \in 1..(i - 1) : list[j] # f) - 1

\* min(...) of a non-empty set of numbers.
min(S) == CHOOSE x \in S : \A y \in S : x <= y

\* An ordering test that is not satisfied when a group is empty.
tests_before_implementation_NotVacuous(visitor) ==
    /\ visitor.test_functions # << >>
    /\ visitor.implementation_functions # << >>
    /\ min({ index(visitor.function_order, f) :
                 f \in { visitor.test_functions[i] :
                             i \in 1..Len(visitor.test_functions) } })
         < min({ index(visitor.function_order, f) :
                 f \in { visitor.implementation_functions[i] :
                             i \in 1..Len(visitor.implementation_functions) } })

\* `tests_before_implementation = True`, replaced by the comparison of
\* first_test_idx and first_impl_idx when both lists are non-empty.
tests_before_implementation(visitor) ==
    IF visitor.test_functions # << >>
           /\ visitor.implementation_functions # << >>
    THEN LET first_test_idx ==
                 min({ index(visitor.function_order, f) :
                         f \in { visitor.test_functions[i] :
                                   i \in 1..Len(visitor.test_functions) } })
             first_impl_idx ==
                 min({ index(visitor.function_order, f) :
                         f \in { visitor.implementation_functions[i] :
                                   i \in 1..Len(visitor.implementation_functions) } })
         IN  first_test_idx < first_impl_idx
    ELSE TRUE

\* The recommendation texts, each a sequence of pieces (the pictograph a
\* text starts with is left out).
NoTestsPair ==
    << << "No test functions found. TDD requires writing tests first!" >>,
       << "Start with a test function like: def test_your_function():" >> >>

FewerTestsPair(test_count, implementation_count) ==
    << << "You have ", ToString(test_count), " test(s) but ",
          ToString(implementation_count), " implementation(s)" >>,
       << "Consider adding more tests to cover all functionality" >> >>

ImplementationFirstPair ==
    << << "Implementation functions appear before test functions" >>,
       << "In TDD, tests should be written before implementation" >> >>

Praise ==
    << << "Good TDD structure! Tests are written before implementation" >> >>

FixSyntax == << << "Fix syntax errors in your code first" >> >>

\* A chain that looks at the order before it looks at the counts.
recommendations_Swapped(has_tests, test_count, implementation_count, before) ==
    IF ~has_tests THEN NoTestsPair
    ELSE IF ~before THEN ImplementationFirstPair
    ELSE IF test_count < implementation_count
    THEN FewerTestsPair(test_count, implementation_count)
    ELSE Praise

\* The if / elif / elif / else chain that fills `recommendations`.
recommendations(has_tests, test_count, implementation_count, before) ==
    IF ~has_tests THEN NoTestsPair
    ELSE IF test_count < implementation_count
    THEN FewerTestsPair(test_count, implementation_count)
    ELSE IF ~before THEN ImplementationFirstPair
    ELSE Praise

\* A flag that does not look at the order.
tdd_compliant_IgnoresOrder(has_tests, test_count, before) ==
    has_tests /\ test_count > 0

\* `has_tests and test_count > 0 and tests_before_implementation`
tdd_compliant(has_tests, test_count, before) ==
    has_tests /\ test_count > 0 /\ before

check_tdd_compliance(source) ==
    LET t == ast_parse(source) IN
    IF t = NoTree
    THEN [has_tests |-> FALSE, test_count |-> 0, implementation_count |-> 0,
          tdd_compliant |-> FALSE, test_functions |-> << >>,
          implementation_functions |-> << >>, recommendations |-> FixSyntax]
    ELSE LET visitor == TDDVisitor_generic_visit(TDDVisitor, t.body)
             has_tests == Len(visitor.test_functions) > 0
             test_count == Len(visitor.test_functions)
             implementation_count == Len(visitor.implementation_functions)
             before == tests_before_implementation(visitor)
         IN  [has_tests |-> has_tests,
              test_count |-> test_count,
              implementation_count |-> implementation_count,
              tdd_compliant |-> tdd_compliant(has_tests, test_count, before),
              test_functions |-> visitor.test_functions,
              implementation_functions |-> visitor.implementation_functions,
              tests_before_implementation |-> before,
              recommendations |->
                  recommendations(has_tests, test_count,
                                  implementation_count, before)]

\* The definitions the source texts given to check_tdd_compliance are made
\* of.
TddPool ==
    { FunctionDef(<< "test", "_", "add" >>, << >>, << >>),
      FunctionDef(<< "add" >>, << >>, << >>),
      FunctionDef(<< "sub" >>, << >>, << >>),
      FunctionDef(<< "_", "helper" >>, << >>, << >>),
      FunctionDef(<< "run", "Test" >>, << >>, << >>),
      ClassDef(<< "Bar" >>, << >>, << >>),
      AsyncFunctionDef(<< "test", "_", "fetch" >>, << >>, << >>) }

\* A text with a syntax error.
Unparsable == [parses |-> FALSE, body |-> << >>]

\* `CodeAnalyzer.check_tdd_compliance(code)` on any text.
Call_check_tdd_compliance ==
    /\ analysis.fn = "none"
    /\ analysis' = [fn    |-> "check_tdd_compliance",
                    value |-> check_tdd_compliance(code)]
    /\ UNCHANGED << grader, code >>

InitTdd ==
    /\ InitGrader
    /\ \/ IsSource(TddPool, MaxNodes)
       \/ code = Unparsable
    /\ analysis = NoAnalysis

NextTdd == Call_check_tdd_compliance

SpecTdd == InitTdd /\ [][NextTdd]_vars

-----------------------------------------------------------------------------
(* generate_report on the mappings a caller can hand to it: for each of    *)
(* the first MaxReportSuites suites of ReportOrder no entry, a completed   *)
(* report of that suite for any outcome of its checks, a load-failure      *)
(* report or an exception entry; and the two top-level error values.       *)

ReportKeys ==
    SubSeq(<< "solid-srp", "architecture-blog", "patterns-ecommerce" >>,
           1, MaxReportSuites)

\* The results of a run in which check i behaves as behaviours[i].
RECURSIVE RunCases(_, _)
RunCases(test_cases, behaviours) ==
    IF test_cases = << >> THEN << >>
    ELSE << run_test_case(Head(test_cases), Head(behaviours)).result >>
         \o RunCases(Tail(test_cases), Tail(behaviours))

RECURSIVE SumScores(_)
SumScores(case_results) ==
    IF case_results = << >> THEN 0
    ELSE Head(case_results).score + SumScores(Tail(case_results))

\* What test_solution can store for the suite registered under k.
Entries(k) ==
    LET s == initialize_test_suites[k] IN
    { CompletedReport(s, SumScores(RunCases(s.test_cases, b)),
                      RunCases(s.test_cases, b), "tree") :
          b \in [1..Len(s.test_cases) -> {"return", "assert"}] }
    \cup { ImportFailedReport(s),
           SuiteExceptionEntry(Exc("UnicodeDecodeError",
                                   "can't decode byte")) }

TopLevelErrors ==
    { [error |-> << "Solution file not found: ", "{solution_file}" >>],
      [error |-> << "Test suite not found: ", "no-such-suite" >>] }

\* generate_report is about to be called on a mapping that extends sofar
\* by entries for some of the keys.
RECURSIVE IsReportInput(_, _)
IsReportInput(keys, sofar) ==
    IF keys = << >>
    THEN generated = [called |-> FALSE, test_results |-> sofar]
    ELSE \/ IsReportInput(Tail(keys), sofar)
         \/ \E e \in Entries(Head(keys)) :
                IsReportInput(Tail(keys), (Head(keys) :> e) @@ sofar)

\* `tester.generate_report(test_results)` on the mapping at hand.
Report_Given ==
    /\ pc = "idle"
    /\ ~generated.called
    /\ "test_results" \in DOMAIN generated
    /\ generated' = generate_report(generated.test_results)
    /\ UNCHANGED << call, own_suite, analyzer >>

InitReport ==
    /\ InitCall
    /\ own_suite = NoSuiteObject
    /\ code = NoSource
    /\ analysis = NoAnalysis
    /\ \/ IsReportInput(ReportKeys, << >>)
       \/ \E all_results \in TopLevelErrors :
              generated = [called |-> FALSE, test_results |-> all_results]

NextReport == Report_Given

SpecReport == InitReport /\ [][NextReport]_vars

-----------------------------------------------------------------------------
(* A ModuleTestSuite object in the hands of a caller.  The dataclass is    *)
(* not frozen and its case list is a list: after construction the caller   *)
(* can append to the list, remove from it, assign to max_points and assign *)
(* to the points of a case.                                                *)

\* The generated __init__ stores the three arguments, then __post_init__
\* runs: `self.max_points = sum(case.points for case in self.test_cases)`.
ModuleTestSuite_init(module_name, test_cases, max_points) ==
    LET self == [module_name |-> module_name,
                 test_cases  |-> test_cases,
                 max_points  |-> max_points]
    IN  [self EXCEPT !.max_points = SumPoints(self.test_cases)]

\* The cases a caller puts into a suite.
CasePool == { TestCase("a", 1), TestCase("b", 2) }

\* `suite.test_cases.append(case)`
Suite_Append ==
    /\ own_suite.made
    /\ Len(own_suite.obj.test_cases) < MaxSuiteCases
    /\ \E test_case \in CasePool :
           own_suite' = [own_suite EXCEPT
                                    !.touched = TRUE,
                                    !.obj.test_cases = Append(@, test_case)]
    /\ UNCHANGED << call, generated, analyzer >>

\* `suite.test_cases.pop()`
Suite_Pop ==
    /\ own_suite.made
    /\ own_suite.obj.test_cases # << >>
    /\ own_suite' = [own_suite EXCEPT
                                !.touched = TRUE,
                                !.obj.test_cases = SubSeq(@, 1, Len(@) - 1)]
    /\ UNCHANGED << call, generated, analyzer >>

\* `suite.max_points = value`
Suite_SetMaxPoints ==
    /\ own_suite.made
    /\ \E value \in { 0, 7 } :
           own_suite' = [own_suite EXCEPT !.touched = TRUE,
                                          !.obj.max_points = value]
    /\ UNCHANGED << call, generated, analyzer >>

\* `suite.test_cases[i].points = value`
Case_SetPoints ==
    /\ own_suite.made
    /\ \E i \in 1..Len(own_suite.obj.test_cases), value \in { 1, 2 } :
           own_suite' = [own_suite EXCEPT
                                    !.touched = TRUE,
                                    !.obj.test_cases[i].points = value]
    /\ UNCHANGED << call, generated, analyzer >>

\* `suite = ModuleTestSuite(module_name, test_cases, max_points)` for every
\* case list of the bound and every max_points passed.
IsNewSuite(n) ==
    \E k \in 0..n :
        \E test_cases \in [1..k -> CasePool], max_points \in { 0, 7 } :
            own_suite = [made    |-> TRUE,
                         obj     |-> ModuleTestSuite_init("own", test_cases,
                                                          max_points),
                         touched |-> FALSE]

InitSuite ==
    /\ InitCall
    /\ generated = NoReport
    /\ code = NoSource
    /\ analysis = NoAnalysis
    /\ IsNewSuite(MaxSuiteCases)

NextSuite ==
    \/ Suite_Append
    \/ Suite_Pop
    \/ Suite_SetMaxPoints
    \/ Case_SetPoints

SpecSuite == InitSuite /\ [][NextSuite]_vars

-----------------------------------------------------------------------------
(* Vocabulary of the properties. *)

Range(f) == { f[x] : x \in DOMAIN f }

\* The last run_test_suite invocation (the one for rs_key) is over.
RunEnded ==
    /\ rs_key # ""
    /\ pc \in {"returned", "raised", "ts_loop", "ts_return"}

\* That invocation returned a report to its caller.
RunReturned ==
    /\ RunEnded
    /\ IF top = "run_test_suite" THEN pc = "returned"
       ELSE pc # "raised" /\ rs_key \in DOMAIN results

RunReport == IF top = "run_test_suite" THEN ret ELSE results[rs_key]

\* The events of the invocation for key k, in the order they happened.
EventsOf(k, ev) == SelectSeq(log, LAMBDA e : e.key = k /\ e.ev = ev)

\* test_solution returned the single top-level error value.
TopLevelError == pc = "returned" /\ DOMAIN ret = {"error"}

\* test_solution returned a mapping of per-suite entries.
ReturnedMapping == pc = "returned" /\ DOMAIN ret \subseteq SuiteKeys

RECURSIVE PassedPoints(_)
PassedPoints(case_results) ==
    IF case_results = << >> THEN 0
    ELSE (IF Head(case_results).result = "PASS"
          THEN Head(case_results).test_case.points ELSE 0)
         + PassedPoints(Tail(case_results))

ReportFields ==
    {"module", "status", "total_score", "max_score", "percentage",
     "results", "detected_patterns", "found_classes"}

-----------------------------------------------------------------------------
(* Properties. *)

\* C1: import_solution never lets an exception reach its caller: whatever
\* the file and its top-level code do, the call ends by returning the module
\* or None.
C1_ImportNeverRaises == lastImport \in {"none", "module", "None"}

\* C2: run_test_case always returns a result: PASS with an empty message when
\* the check returns, FAIL with the assertion's text when it raises an
\* assertion error, ERROR with "<type>: <message>" for any other exception;
\* never SKIP, and no exception reaches the caller.
C2_RunTestCaseAlwaysReturns ==
    lastCase.called =>
        /\ lastCase.returned
        /\ lastCase.result.result \in {"PASS", "FAIL", "ERROR"}
        /\ LET e == CheckRaises(lastCase.behaviour)
               r == lastCase.result
           IN CASE lastCase.behaviour = "return" ->
                     r.result = "PASS" /\ r.error_message = << >>
                [] lastCase.behaviour = "assert" ->
                     r.result = "FAIL" /\ r.error_message = << e.msg >>
                [] OTHER ->
                     /\ r.result = "ERROR"
                     /\ r.error_message = << e.type, ": ", e.msg >>

\* C3: once the module has loaded, a run_test_suite invocation calls every
\* case of the suite exactly once, in declared order, and returns a report
\* whose results list has one entry per case in that order.
C3_EveryCaseRunInOrder ==
    (RunEnded /\ lastImport = "module") =>
        LET n == Len(rs_suite.test_cases)
            called == EventsOf(rs_key, "check")
        IN /\ Len(called) = n
           /\ \A i \in 1..n : called[i].idx = i
           /\ RunReturned
           /\ Len(RunReport.results) = n
           /\ \A i \in 1..n :
                 RunReport.results[i].test_case = rs_suite.test_cases[i]

\* C4: in a completed report each result scores the case's points on PASS
\* and 0 otherwise, total_score is the sum of the points of the passed
\* cases, max_score is the suite's max_points, and percentage is
\* 100 * total_score / max_points (0 when max_points is 0); 2/3/5 with only
\* the second case failing gives 7 of 10 and 70 percent.
C4_CompletedScores ==
    (RunReturned /\ RunReport.status = "completed") =>
        LET rep == RunReport
            mp  == SumPoints(rs_suite.test_cases)
        IN /\ \A i \in 1..Len(rep.results) :
                 rep.results[i].score =
                     IF rep.results[i].result = "PASS"
                     THEN rep.results[i].test_case.points ELSE 0
           /\ rep.total_score = PassedPoints(rep.results)
           /\ rep.max_score = rs_suite.max_points
           /\ rep.max_score = mp
           /\ IF mp > 0
              THEN rep.percentage[1] * mp = 100 * rep.total_score * rep.percentage[2]
              ELSE rep.percentage[1] = 0
           /\ rep.percentage[2] > 0
           /\ ( /\ [i \in 1..Len(rep.results) |-> rep.results[i].test_case.points]
                    = << 2, 3, 5 >>
                /\ rep.results[1].result = "PASS"
                /\ rep.results[2].result # "PASS"
                /\ rep.results[3].result = "PASS" )
              => /\ rep.total_score = 7
                 /\ rep.max_score = 10
                 /\ rep.percentage[1] = 70 * rep.percentage[2]

\* Reached: the 2/3/5 suite has been run with only its second case failing.
C4_Witness ==
    /\ top = "run_test_suite"
    /\ pc = "returned"
    /\ rs_suite.module_name = "fixture-2-3-5"
    /\ "status" \in DOMAIN ret
    /\ ret.status = "completed"
    /\ [i \in 1..Len(ret.results) |-> ret.results[i].result]
           = << "PASS", "FAIL", "PASS" >>
    /\ ret.total_score = 7

C6_TestSolutionNeverRaises == top = "test_solution" => pc # "raised"

\* C7: without a suite name and with an existing file, test_solution returns
\* a mapping with exactly one entry per registered key; an exception leaving
\* one suite's run becomes that suite's entry and every other suite is run.
C7_AllSuitesIsolated ==
    ( /\ top = "test_solution"
      /\ test_suite_name = None
      /\ solution_file.exists
      /\ Ended ) =>
        /\ pc = "returned"
        /\ DOMAIN ret = SuiteKeys
        /\ \A k \in SuiteKeys : \E i \in 1..Len(log) : log[i].key = k

\* C8: every per-suite entry of the mapping test_solution returns carries
\* the fields module, status, total_score, max_score, percentage, results,
\* detected_patterns and found_classes.
C8_EntriesCarryReportFields ==
    (top = "test_solution" /\ ReturnedMapping) =>
        \A k \in DOMAIN ret : ReportFields \subseteq DOMAIN ret[k]

\* C9: for a path that does not exist test_solution returns the single
\* top-level error value, whatever the suite name; no module is loaded, no
\* check is run and the registry with every max_points is as constructed.
C9_MissingFileTouchesNothing ==
    ( /\ top = "test_solution"
      /\ ~solution_file.exists
      /\ pc # "ts_exists" ) =>
        /\ TopLevelError
        /\ results = << >>
        /\ log = << >>
        /\ test_suites = initialize_test_suites
        /\ \A k \in SuiteKeys :
              test_suites[k].max_points = SumPoints(test_suites[k].test_cases)

\* Reached: a missing file was submitted for a registered suite and the
\* call has returned.
C9_Witness ==
    /\ top = "test_solution"
    /\ ~solution_file.exists
    /\ test_suite_name = Str("solid-srp")
    /\ TopLevelError

\* C10: for an existing file and a given suite name that is not a registered
\* key, test_solution returns an error value naming that suite and runs no
\* suite: no module load, no check.
C10_UnknownSuiteRejected ==
    ( /\ top = "test_solution"
      /\ solution_file.exists
      /\ test_suite_name.given
      /\ test_suite_name.name \notin SuiteKeys
      /\ pc \notin {"ts_exists", "ts_dispatch"} ) =>
        /\ TopLevelError
        /\ test_suite_name.name \in Range(ret.error)
        /\ log = << >>

Loads ==
    SelectSeq(log, LAMBDA e : e.ev \in {"import", "import_raised",
                                        "import_failed"})

\* Those made by the run_test_suite invocation for key k.
LoadsOf(k) == SelectSeq(Loads, LAMBDA e : e.key = k)

\* C12: every run_test_suite invocation loads the student file exactly once
\* (no load before it starts importing, one load from then on) and every
\* check it calls receives the module object of that load; the module
\* objects of different invocations are different objects, and an all-suites
\* call that returned its mapping has made as many loads as there are suites.
C12_OneLoadPerSuiteRun ==
    /\ \A i \in 1..Len(log) :
           /\ Len(LoadsOf(log[i].key)) = 1
           /\ log[i].ev = "check" =>
                  /\ log[i].mod # 0
                  /\ LoadsOf(log[i].key)[1] = Event("import", log[i].key, 0,
                                                    log[i].mod)
    /\ \A i, j \in 1..Len(log) :
           (log[i].ev = "import" /\ log[j].ev = "import" /\ i # j) =>
               /\ log[i].mod # log[j].mod
               /\ log[i].key # log[j].key
    /\ (rs_key # "" /\ pc # "rs_import") => Len(LoadsOf(rs_key)) = 1
    /\ (rs_key # "" /\ pc = "rs_import") => Len(LoadsOf(rs_key)) = 0
    /\ (ReturnedMapping /\ DOMAIN ret = SuiteKeys) =>
           Len(Loads) = Cardinality(SuiteKeys)

\* An all-suites call has returned after loading the file five times and
\* calling checks of every suite.
C12_Witness ==
    /\ ReturnedMapping
    /\ DOMAIN ret = SuiteKeys
    /\ Count("import") = Cardinality(SuiteKeys)
    /\ \A k \in SuiteKeys :
           Len(EventsOf(k, "check")) = Len(test_suites[k].test_cases)

\* The class definitions and the `def` function definitions of the text.
ClassDefs == { n \in Nodes(code.body) : n.kind = "ClassDef" }

FunctionDefs == { n \in Nodes(code.body) : n.kind = "FunctionDef" }

\* Some class name / some function name contains the word, whatever the
\* case of its letters.
ClassNamed(word) == \E n \in ClassDefs : Contains(word, lower(n.name))

FunctionNamed(word) == \E n \in FunctionDefs : Contains(word, lower(n.name))

\* Some function directly in the body of a class is decorated with the
\* name abstractmethod.
AbstractMethod ==
    \E c \in ClassDefs : \E i \in 1..Len(c.body) :
        /\ c.body[i].kind = "FunctionDef"
        /\ Name("abstractmethod") \in Range(c.body[i].decorator_list)

\* The documented rule table.
RuleTable ==
    [singleton |-> ClassNamed(<< "singleton" >>)
                       \/ FunctionNamed(<< "_instance" >>),
     factory   |-> ClassNamed(<< "factory" >>)
                       \/ FunctionNamed(<< "create" >>)
                       \/ FunctionNamed(<< "make" >>),
     strategy  |-> AbstractMethod
                       /\ (\E c \in ClassDefs : c.bases # << >>)
                       /\ ClassNamed(<< "strategy" >>),
     observer  |-> ClassNamed(<< "observer" >>)
                       \/ FunctionNamed(<< "notify" >>)
                       \/ FunctionNamed(<< "subscribe" >>),
     decorator |-> ClassNamed(<< "decorator" >>)
                       \/ FunctionNamed(<< "wrap" >>),
     command   |-> ClassNamed(<< "command" >>)
                       /\ FunctionNamed(<< "execute" >>),
     builder   |-> ClassNamed(<< "build", "er" >>)
                       \/ FunctionNamed(<< "build" >>)]

C14_DetectionMonotonic ==
    (analysis.fn = "find_design_patterns" /\ analysis.edited) =>
        \A p \in PatternNames : analysis.earlier[p] => analysis.value[p]

\* A text for which strategy and command were detected has been added to
\* and analysed again.
C14_Witness ==
    /\ analysis.fn = "find_design_patterns"
    /\ analysis.edited
    /\ analysis.earlier["strategy"]
    /\ analysis.value["command"]
    /\ Size(code.body) = MaxNodes

\* The definitions of a body in document order, at every depth.
RECURSIVE Flatten(_)
Flatten(body) ==
    IF body = << >> THEN << >>
    ELSE << Head(body) >> \o Flatten(Head(body).body) \o Flatten(Tail(body))

NamesOf(nodes) == [i \in 1..Len(nodes) |-> nodes[i].name]

IsClassDef(node) == node.kind = "ClassDef"

\* The names of the classes defined by the statements of the module itself,
\* in declaration order.
TopLevelClasses == NamesOf(SelectSeq(code.body, IsClassDef))

\* a can be obtained from b by leaving elements out.
RECURSIVE IsSubsequence(_, _)
IsSubsequence(a, b) ==
    IF a = << >> THEN TRUE
    ELSE IF b = << >> THEN FALSE
    ELSE IF Head(a) = Head(b) THEN IsSubsequence(Tail(a), Tail(b))
    ELSE IsSubsequence(a, Tail(b))

\* C15 as stated: for a source with N top-level class definitions
\* find_classes returns exactly N names, in declaration order.
C15_ExactlyTopLevelClasses ==
    analysis.fn = "find_classes" =>
        /\ Len(analysis.value) = Len(TopLevelClasses)
        /\ analysis.value = TopLevelClasses

\* C15 amended: find_classes returns one name for every class definition of
\* the source, nested ones included; the names of the N top-level classes
\* are among them in declaration order, and they are exactly the N names
\* returned when no class is defined inside another definition.
C15_AllClassesTopLevelInOrder ==
    analysis.fn = "find_classes" =>
        /\ Len(analysis.value) = Len(SelectSeq(Flatten(code.body), IsClassDef))
        /\ IsSubsequence(TopLevelClasses, analysis.value)
        /\ (\A n \in Nodes(code.body) : \A m \in Range(n.body) :
                ~IsClassDef(m))
               => analysis.value = TopLevelClasses

\* find_classes has answered for a text with two top-level classes, the
\* first of which contains a class.
C15_Witness ==
    /\ analysis.fn = "find_classes"
    /\ Len(TopLevelClasses) = 2
    /\ Len(analysis.value) = 3
    /\ IsClassDef(code.body[1])
    /\ code.body[1].body # << >>

IsFunctionDef(node) == node.kind = "FunctionDef"

\* The names of the `def` functions written anywhere inside a class named
\* class_name.
FunctionsInside(class_name) ==
    UNION { { f.name : f \in { n \in Nodes(c.body) : IsFunctionDef(n) } } :
                c \in { n \in Nodes(code.body) :
                            IsClassDef(n) /\ n.name = class_name } }

\* The names of the `def` functions of a body whose innermost enclosing
\* class is class_name, the body itself lying in class `enclosing`.
RECURSIVE FunctionsOf(_, _, _)
FunctionsOf(body, enclosing, class_name) ==
    IF body = << >> THEN { }
    ELSE LET node == Head(body) IN
         (IF IsFunctionDef(node) /\ enclosing = class_name
          THEN { node.name } ELSE { })
         \cup FunctionsOf(node.body,
                          IF IsClassDef(node) THEN node.name ELSE enclosing,
                          class_name)
         \cup FunctionsOf(Tail(body), enclosing, class_name)

\* find_methods was asked about a class by name.
AskedClass == analysis.fn = "find_methods" /\ analysis.class_name # NoClass

NoSuchClass ==
    \A n \in Nodes(code.body) : IsClassDef(n) => n.name # analysis.class_name

TddResult == analysis.fn = "check_tdd_compliance"

\* The result says that tests come before implementation (the result for
\* an unparsable text does not say anything about the order).
SaysTestsBefore ==
    /\ "tests_before_implementation" \in DOMAIN analysis.value
    /\ analysis.value.tests_before_implementation

\* C17: tdd_compliant is True if and only if at least one test function
\* exists and tests_before_implementation is True, whatever the number of
\* implementation functions and whichever recommendation is produced.
C17_CompliantIffTestsFirst ==
    TddResult =>
        (analysis.value.tdd_compliant
            <=> (analysis.value.test_count >= 1 /\ SaysTestsBefore))

\* A result is compliant although it has fewer tests than implementations
\* and recommends more tests.
C17_Witness ==
    /\ TddResult
    /\ analysis.value.tdd_compliant
    /\ analysis.value.test_count < analysis.value.implementation_count
    /\ analysis.value.recommendations # Praise

\* The names of the `def` functions of the text, at every depth, in the
\* order of their declaration.
Declared == NamesOf(SelectSeq(Flatten(code.body), IsFunctionDef))

\* The name-based groups: a test has "test" in its name in any case of
\* letters; an implementation function is any other function whose name
\* does not start with an underscore.
NamedTest(name) == Contains(<< "test" >>, lower(name))

NamedImplementation(name) == ~NamedTest(name) /\ name[1] # "_"

TestIndexes == { i \in 1..Len(Declared) : NamedTest(Declared[i]) }

ImplementationIndexes ==
    { i \in 1..Len(Declared) : NamedImplementation(Declared[i]) }

\* C18: tests_before_implementation is True whenever the test group or the
\* implementation group is empty, and otherwise says whether the earliest
\* declaration index of a test function is smaller than the earliest
\* declaration index of an implementation function.  A text with only
\* test_add gives has_tests and tdd_compliant; a text defining add before
\* test_add gives tests_before_implementation False, tdd_compliant False
\* and the implementation-first recommendation.
C18_EarliestTestBeforeEarliestImplementation ==
    (TddResult /\ code.parses) =>
        /\ analysis.value.tests_before_implementation
               = IF TestIndexes = { } \/ ImplementationIndexes = { }
                 THEN TRUE
                 ELSE min(TestIndexes) < min(ImplementationIndexes)
        /\ code.body = << FunctionDef(<< "test", "_", "add" >>, << >>, << >>) >>
               => /\ analysis.value.has_tests
                  /\ analysis.value.tdd_compliant
        /\ code.body = << FunctionDef(<< "add" >>, << >>, << >>),
                          FunctionDef(<< "test", "_", "add" >>, << >>, << >>) >>
               => /\ ~analysis.value.tests_before_implementation
                  /\ ~analysis.value.tdd_compliant
                  /\ analysis.value.recommendations = ImplementationFirstPair

\* The result for add followed by test_add.
C18_Witness ==
    /\ TddResult
    /\ code.body = << FunctionDef(<< "add" >>, << >>, << >>),
                      FunctionDef(<< "test", "_", "add" >>, << >>, << >>) >>
    /\ ~analysis.value.tests_before_implementation

\* The names of the functions defined by the statements of the module
\* itself.
TopLevelFunctions == NamesOf(SelectSeq(code.body, IsFunctionDef))

C20_RecommendationChain ==
    (TddResult /\ code.parses) =>
        LET r == analysis.value IN
        /\ r.test_count = 0 => r.recommendations = NoTestsPair
        /\ (r.test_count > 0 /\ r.test_count < r.implementation_count) =>
               r.recommendations
                   = FewerTestsPair(r.test_count, r.implementation_count)
        /\ (r.test_count > 0 /\ r.test_count >= r.implementation_count
                /\ ~r.tests_before_implementation) =>
               r.recommendations = ImplementationFirstPair
        /\ (r.test_count > 0 /\ r.test_count >= r.implementation_count
                /\ r.tests_before_implementation) =>
               r.recommendations = Praise
        /\ r.recommendations = Praise <=>
               /\ r.test_count >= 1
               /\ r.test_count >= r.implementation_count
               /\ r.tests_before_implementation
        /\ Cardinality({ p \in { NoTestsPair, ImplementationFirstPair, Praise,
                                 FewerTestsPair(r.test_count,
                                                r.implementation_count) } :
                             p = r.recommendations }) = 1

\* A result with fewer tests than implementations whose first function
\* is an implementation: the second branch fires, not the third.
C20_Witness ==
    /\ TddResult
    /\ code.parses
    /\ analysis.value.test_count = 1
    /\ analysis.value.implementation_count = 2
    /\ ~analysis.value.tests_before_implementation
    /\ analysis.value.recommendations = FewerTestsPair(1, 2)

SuccessFields ==
    { "has_tests", "test_count", "implementation_count", "tdd_compliant",
      "tests_before_implementation", "test_functions",
      "implementation_functions", "recommendations" }

\* C30: check_tdd_compliance returns the same set of fields on every
\* path: the result for an unparsable text carries every field of the
\* result for a parsable text, tests_before_implementation included.
C30_SameFieldsOnEveryPath ==
    TddResult => DOMAIN analysis.value = SuccessFields

\* The result for the text with a syntax error has no
\* tests_before_implementation field; every other field is there.
C30_MissingField ==
    (TddResult /\ ~code.parses) =>
        DOMAIN analysis.value
            = SuccessFields \ { "tests_before_implementation" }

\* The result for a text that parses has all eight fields.
C30_ParsableFields ==
    (TddResult /\ code.parses) => DOMAIN analysis.value = SuccessFields

\* All class definitions of the text in depth-first document order: a
\* definition, then the definitions inside it, then what follows it.
ClassesInDocumentOrder == SelectSeq(Flatten(code.body), IsClassDef)

\* C25: find_classes returns the name of every class definition of the
\* tree, classes nested in classes and classes defined inside functions
\* included, once per definition, in the order of a depth-first
\* document-order traversal: an outer class before its nested classes, a
\* nested class before a later sibling of its outer class.
C25_EveryClassDepthFirst ==
    analysis.fn = "find_classes" =>
        analysis.value = NamesOf(ClassesInDocumentOrder)

\* find_classes has answered for a text where Bar contains Inner and a
\* second class named Bar follows: outer, nested, later sibling.
C25_Witness ==
    /\ analysis.fn = "find_classes"
    /\ code.body =
           << ClassDef(<< "Bar" >>, << >>,
                  << ClassDef(<< "Inner" >>, << >>, << >>) >>),
              ClassDef(<< "Bar" >>, << >>, << >>) >>
    /\ analysis.value = << << "Bar" >>, << "Inner" >>, << "Bar" >> >>

\* find_classes has found the class that a function of Bar defines.
C25_ClassInsideFunction ==
    /\ analysis.fn = "find_classes"
    /\ code.body =
           << ClassDef(<< "Bar" >>, << >>,
                  << FunctionDef(<< "run" >>, << >>,
                         << ClassDef(<< "Inner" >>, << >>, << >>) >>) >>) >>
    /\ analysis.value = << << "Bar" >>, << "Inner" >> >>

\* The kinds of function definition: `def` and `async def`.
FunctionKinds == { "FunctionDef", "AsyncFunctionDef" }

\* The nodes of a body of one of the kinds whose innermost enclosing class is
\* class_name (any class when class_name is None), in document order; the
\* body itself lies in class `enclosing`.
RECURSIVE Attributed(_, _, _, _)
Attributed(body, enclosing, class_name, kinds) ==
    IF body = << >> THEN << >>
    ELSE LET node == Head(body) IN
         (IF /\ node.kind \in kinds
             /\ (class_name = NoClass \/ enclosing = class_name)
          THEN << node.name >> ELSE << >>)
         \o Attributed(node.body,
                       IF IsClassDef(node) THEN node.name ELSE enclosing,
                       class_name, kinds)
         \o Attributed(Tail(body), enclosing, class_name, kinds)

\* C26: find_methods keeps track of the enclosing class by saving and
\* restoring it.  Without a class name it returns every function
\* definition of the tree (module-level functions, methods, nested
\* functions, async functions) in document order; with a class name it
\* returns exactly the functions whose innermost enclosing class has that
\* name, so methods after a nested class belong to the outer class again
\* and functions after a class belong to no class.
C26_SaveRestoreAllFunctions ==
    analysis.fn = "find_methods" =>
        analysis.value
            = Attributed(code.body, NoClass, analysis.class_name,
                         FunctionKinds)

\* What find_methods returns: the same attribution, of `def` functions
\* only.
C26_SaveRestoreDefOnly ==
    analysis.fn = "find_methods" =>
        analysis.value
            = Attributed(code.body, NoClass, analysis.class_name,
                         { "FunctionDef" })

\* find_methods was asked for all functions of a text that has an async
\* function only, and returned nothing.
C26_AsyncLeftOut ==
    /\ analysis.fn = "find_methods"
    /\ analysis.class_name = NoClass
    /\ code.body = << AsyncFunctionDef(<< "fetch" >>, << >>, << >>) >>
    /\ analysis.value = << >>

\* find_methods was asked about Bar: run comes after the nested class
\* Inner and is a method of Bar again.
C26_RestoredAfterInner ==
    /\ analysis.fn = "find_methods"
    /\ analysis.class_name = << "Bar" >>
    /\ code.body =
           << ClassDef(<< "Bar" >>, << >>,
                  << ClassDef(<< "Inner" >>, << >>, << >>),
                     FunctionDef(<< "run" >>, << >>, << >>) >>) >>
    /\ analysis.value = << << "run" >> >>

\* generate_report has returned its text.
ReportReturned == generated.called /\ ~generated.raised

\* The entries of the mapping given to generate_report that are reports
\* without an error, in the order of the registry.
Scored(all_results) ==
    SelectSeq(SuiteOrder,
              LAMBDA k : /\ k \in DOMAIN all_results
                         /\ "error" \notin DOMAIN all_results[k])

RECURSIVE SumOver(_, _, _)
SumOver(keys, all_results, field) ==
    IF keys = << >> THEN 0
    ELSE all_results[Head(keys)][field]
         + SumOver(Tail(keys), all_results, field)

\* Sum of total_score and sum of max_score over the non-error entries.
ScoredTotal == SumOver(Scored(generated.test_results),
                       generated.test_results, "total_score")

ScoredMax == SumOver(Scored(generated.test_results),
                     generated.test_results, "max_score")

BandLines ==
    { << "Excellent work!" >>, << "Good job!" >>, << "Keep improving!" >>,
      << "More practice needed!" >> }

LastLine == generated.text[Len(generated.text)]

\* C22: the report ends with exactly one band line, chosen from the
\* overall percentage with inclusive lower bounds tried highest first:
\* at least 90 excellent, else at least 75 good, else at least 60 keep
\* improving, else more practice.  Exactly 90, 75 and 60 are in the
\* higher band; an overall maximum of 0 gives percentage 0 and the
\* lowest band.
C22_BandFromOverallPercentage ==
    ReportReturned =>
        /\ { i \in 1..Len(generated.text) : generated.text[i] \in BandLines }
               = { Len(generated.text) }
        /\ ScoredMax > 0 =>
               LastLine =
                   IF 100 * ScoredTotal >= 90 * ScoredMax
                   THEN << "Excellent work!" >>
                   ELSE IF 100 * ScoredTotal >= 75 * ScoredMax
                   THEN << "Good job!" >>
                   ELSE IF 100 * ScoredTotal >= 60 * ScoredMax
                   THEN << "Keep improving!" >>
                   ELSE << "More practice needed!" >>
        /\ ScoredMax = 0 =>
               /\ LastLine = << "More practice needed!" >>
               /\ LET line == generated.text[Len(generated.text) - 1]
                  IN  SubSeq(line, Len(line) - 4, Len(line))
                          = << " (", "0", ".", "0", "%)" >>

\* A report for 27 of 30 points, exactly 90 percent, ends with the
\* excellent band.
C22_Witness ==
    /\ ReportReturned
    /\ ScoredTotal = 27
    /\ ScoredMax = 30
    /\ LastLine = << "Excellent work!" >>

\* Exactly 75 percent (9 of 12) is good, exactly 60 percent (18 of 30)
\* is keep improving.
C22_Exactly75 ==
    /\ ReportReturned
    /\ ScoredTotal = 9
    /\ ScoredMax = 12
    /\ LastLine = << "Good job!" >>

C22_Exactly60 ==
    /\ ReportReturned
    /\ ScoredTotal = 18
    /\ ScoredMax = 30
    /\ LastLine = << "Keep improving!" >>

\* C27: generate_report returns the text of a report, without raising,
\* for every value test_solution can return: a mapping of completed
\* reports, of load-failure or exception entries, and the top-level error
\* value of a missing file or an unknown suite name.
C27_ReportForEveryReturnValue ==
    generated.called => ~generated.raised

\* generate_report raises TypeError exactly on the top-level error values.
C27_RaisesOnTopLevelError ==
    generated.called =>
        /\ generated.raised <=> DOMAIN generated.test_results = { "error" }
        /\ generated.raised => generated.exc.type = "TypeError"

\* generate_report was given the value returned for a missing file.
C27_MissingFileReport ==
    /\ generated.called
    /\ ~solution_file.exists
    /\ generated.test_results = ret
    /\ generated.raised

\* generate_report was given the mapping of an all-suites call and
\* returned its text.
C27_AllSuitesReport ==
    /\ ReportReturned
    /\ DOMAIN generated.test_results = SuiteKeys

\* C28: a suite whose entry carries an error (load failure or captured
\* exception) adds to neither the aggregate score nor the aggregate
\* maximum: the overall percentage is 100 * (sum of total_score) / (sum of
\* max_score) over the non-error suites only, and when every suite is in
\* error the overall result is 0/0 with percentage 0.
C28_ErrorEntriesNotAggregated ==
    ReportReturned =>
        LET line == generated.text[Len(generated.text) - 1] IN
        /\ Scored(generated.test_results) # << >> =>
               line = << "Total Score: ", ToString(ScoredTotal), ".0", "/",
                         ToString(ScoredMax), " (" >>
                      \o Format1f(Percentage(ScoredTotal, ScoredMax))
                      \o << "%)" >>
        /\ Scored(generated.test_results) = << >> =>
               line = << "Total Score: ", "0", "/", "0", " (", "0", ".", "0",
                         "%)" >>

\* One suite failed to load, the other scored 9 of 12: the report says
\* 9.0/12 (75.0%).
C28_Witness ==
    /\ ReportReturned
    /\ DOMAIN generated.test_results = { "solid-srp", "architecture-blog" }
    /\ generated.test_results["architecture-blog"].status = "error"
    /\ generated.test_results["solid-srp"].status = "completed"
    /\ generated.text[Len(generated.text) - 1]
           = << "Total Score: ", "9", ".0", "/", "12", " (", "75", ".", "0",
                "%)" >>

\* Both suites are in error: 0/0 and 0.0 percent.
C28_AllInError ==
    /\ ReportReturned
    /\ DOMAIN generated.test_results = { "solid-srp", "architecture-blog" }
    /\ Scored(generated.test_results) = << >>
    /\ generated.text[Len(generated.text) - 1]
           = << "Total Score: ", "0", "/", "0", " (", "0", ".", "0", "%)" >>

\* C24: the registry of a facade has exactly the five keys solid-srp,
\* patterns-ecommerce, architecture-blog, ddd-ecommerce and
\* project-implementation from construction on, and no sequence of
\* test_solution and generate_report calls, successful or failing, adds,
\* removes or changes a suite, its case list or its max_points.
C24_RegistryFixed ==
    /\ DOMAIN test_suites
           = { "solid-srp", "patterns-ecommerce", "architecture-blog",
               "ddd-ecommerce", "project-implementation" }
    /\ \A k \in DOMAIN test_suites :
           /\ test_suites[k] = initialize_test_suites[k]
           /\ test_suites[k].max_points = SumPoints(test_suites[k].test_cases)

\* A call was made, repeated, and the report of the second call
\* generated.
C24_Witness ==
    /\ first.present
    /\ top = "test_solution"
    /\ generated.called

\* The suites of the registry.
Registered == { initialize_test_suites[k] : k \in SuiteKeys }

AllPassed(case_results) ==
    \A i \in 1..Len(case_results) : case_results[i].result = "PASS"

\* C29: for every registered suite and every student module a completed
\* report has 0 <= total_score <= max_score and 0 <= percentage <= 100, and
\* total_score = max_score exactly when every case passed; the bounds hold
\* after each case of the run, not only at the end.
C29_ScoreWithinBounds ==
    /\ (pc = "rs_cases" /\ rs_suite \in Registered) =>
           /\ 0 <= total_score
           /\ total_score <= SumPoints(SubSeq(rs_suite.test_cases, 1,
                                              Len(test_results)))
           /\ total_score <= rs_suite.max_points
           /\ total_score = rs_suite.max_points <=>
                  /\ Len(test_results) = Len(rs_suite.test_cases)
                  /\ AllPassed(test_results)
    /\ (RunReturned /\ rs_suite \in Registered
            /\ RunReport.status = "completed") =>
           /\ 0 <= RunReport.total_score
           /\ RunReport.total_score <= RunReport.max_score
           /\ 0 <= RunReport.percentage[1]
           /\ RunReport.percentage[1] <= 100 * RunReport.percentage[2]
           /\ RunReport.percentage[2] > 0
           /\ Len(RunReport.results) = Len(rs_suite.test_cases)
           /\ RunReport.total_score = RunReport.max_score <=>
                  AllPassed(RunReport.results)

\* A run of a registered suite in which some checks passed and one failed
\* has completed with a score strictly between 0 and the maximum.
C29_Witness ==
    /\ RunReturned
    /\ rs_suite \in Registered
    /\ RunReport.status = "completed"
    /\ 0 < RunReport.total_score
    /\ RunReport.total_score < RunReport.max_score
    /\ ~AllPassed(RunReport.results)

\* A run of a registered suite has completed with every check passed.
C29_FullScore ==
    /\ RunReturned
    /\ rs_suite \in Registered
    /\ RunReport.status = "completed"
    /\ RunReport.total_score = RunReport.max_score
    /\ AllPassed(RunReport.results)

\* C23: the max_points of a ModuleTestSuite equals the sum of the points
\* of its cases: it is computed at construction whatever max_points value
\* was passed to the constructor, and it still equals that sum after any
\* later operation on the suite or its case list.
C23_MaxPointsIsSum ==
    own_suite.made =>
        own_suite.obj.max_points = SumPoints(own_suite.obj.test_cases)

\* At the end of construction max_points is the sum, whatever was passed.
C23_SumAtConstruction ==
    (own_suite.made /\ ~own_suite.touched) =>
        own_suite.obj.max_points = SumPoints(own_suite.obj.test_cases)

\* A case worth 2 points was appended to a suite built from one case
\* worth 1 point: max_points is still 1.
C23_StaleAfterAppend ==
    /\ own_suite.made
    /\ own_suite.touched
    /\ own_suite.obj.test_cases = << TestCase("a", 1), TestCase("b", 2) >>
    /\ own_suite.obj.max_points = 1

====
